---- MODULE Spec2Model ----
(***************************************************************************)
(* pymarket/algorithms.py: the two simulation engines alg_01 (rebalance    *)
(* bonds into stock on drawdowns) and alg_02 (buy on margin on drawdowns). *)
(* One call of one engine is modelled per behaviour: the arguments are     *)
(* drawn in Init, and the call advances one loop iteration per action.     *)
(*                                                                         *)
(* Numbers: prices are positive integers.  The drawdown and the triggers it *)
(* is compared with, which decide whether a ladder entry fires, are float64 *)
(* values computed as the source computes them, with round-to-nearest-even  *)
(* at 53 significant bits.  The valuations (stock_val, bond_val, margin,    *)
(* m_stock_val, port_change) are exact rationals <<numerator, denominator>> *)
(* in lowest terms: their rounding is not modelled.                         *)
(*                                                                         *)
(* Lists: python lists are objects on a heap.  A list the caller passed is *)
(* the object <<"caller", name>>; a list the callee builds is              *)
(* <<"callee", name>>.  env maps each local name to the object it is       *)
(* bound to, so that aliasing and in-place mutation (pop) are visible.     *)
(***************************************************************************)
EXTENDS Integers, Sequences, FiniteSets, TLC

\* ------------------------------------------------------------------------
\* Bounds of the model and constants of the program

MaxLen == 3

MaxLadder == 2

PercentScale == 100

ContributionPeriod == 25

\* ------------------------------------------------------------------------
\* Exact rational arithmetic (python's float operators, without rounding)

RECURSIVE GCD(_, _)
GCD(a, b) == IF b = 0 THEN a ELSE GCD(b, a % b)

Abs(n) == IF n < 0 THEN -n ELSE n

Norm(n, d) ==
    LET g == GCD(Abs(n), d)
    IN  IF n = 0 THEN <<0, 1>> ELSE <<n \div g, d \div g>>

R(n) == <<n, 1>>

RMul(x, y) ==
    LET a == Norm(x[1], y[2])
        b == Norm(y[1], x[2])
    IN  Norm(a[1] * b[1], a[2] * b[2])

RDiv(x, y) == RMul(x, <<y[2], y[1]>>)

RAdd(x, y) ==
    LET g == GCD(x[2], y[2])
    IN  Norm(x[1] * (y[2] \div g) + y[1] * (x[2] \div g), x[2] * (y[2] \div g))

RNeg(x) == <<-x[1], x[2]>>

RSub(x, y) == RAdd(x, RNeg(y))

RLt(x, y) == x[1] * y[2] < y[1] * x[2]

\* ------------------------------------------------------------------------
\* float64 values in [0, 2): an integer part and the bits after the binary
\* point, without trailing zeros; larger whole numbers have no fraction bits

SignificandBits == 53

FZero == [ip |-> 0, bits |-> <<>>]

\* long division of r by b, for 0 <= r < b: <<the first n bits after the
\* point, what is left after them>>, sixteen bits at a time
RECURSIVE Digits(_, _, _)
Digits(r, b, n) ==
    IF n = 0 THEN <<<<>>, r>>
    ELSE LET c == IF n > 16 THEN 16 ELSE n
             v == r * 2^c
             q == v \div b
             rest == Digits(v % b, b, n - c)
         IN  <<[k \in 1..c |-> (q \div 2^(c - k)) % 2] \o rest[1], rest[2]>>

Expansion(r, b, n) == Digits(r, b, n)[1]

\* zero bits of r/b before its first one bit, for 0 < r < b
RECURSIVE LeadingZeros(_, _)
LeadingZeros(r, b) == IF 2 * r >= b THEN 0 ELSE 1 + LeadingZeros(2 * r, b)

RECURSIVE Strip(_)
Strip(B) ==
    IF B = <<>> \/ B[Len(B)] = 1 THEN B ELSE Strip(SubSeq(B, 1, Len(B) - 1))

\* B plus one unit in its last place: <<carry out, bits>>
RECURSIVE Inc(_)
Inc(B) ==
    IF B = <<>> THEN <<1, <<>>>>
    ELSE IF B[Len(B)] = 0 THEN <<0, SubSeq(B, 1, Len(B) - 1) \o <<1>>>>
    ELSE LET r == Inc(SubSeq(B, 1, Len(B) - 1)) IN <<r[1], r[2] \o <<0>>>>

\* round-to-nearest-even of the nonzero fraction B (followed by something
\* nonzero when sticky) to SignificandBits significant bits
Round(B, sticky) ==
    LET e == CHOOSE k \in 1..Len(B) : B[k] = 1 /\ \A j \in 1..(k - 1) : B[j] = 0
        L == e + SignificandBits - 1
    IN  IF Len(B) <= L THEN [ip |-> 0, bits |-> Strip(B)]
        ELSE LET T == SubSeq(B, 1, L)
                 st == sticky \/ \E k \in (L + 2)..Len(B) : B[k] = 1
                 up == B[L + 1] = 1 /\ (st \/ T[L] = 1)
                 r == Inc(T)
             IN  IF up THEN [ip |-> r[1], bits |-> Strip(r[2])]
                 ELSE [ip |-> 0, bits |-> Strip(T)]

\* a / b in float64, for integers 0 <= a <= b, 0 < b
FDiv(a, b) ==
    IF a = 0 THEN FZero
    ELSE IF a = b THEN [ip |-> 1, bits |-> <<>>]
    ELSE LET n == LeadingZeros(a, b) + SignificandBits + 1
             d == Digits(a, b, n)
         IN  Round(d[1], d[2] # 0)

\* 1 - q in float64, for 0 <= q <= 1
OneMinus(q) ==
    IF q.ip = 1 THEN FZero
    ELSE IF q.bits = <<>> THEN [ip |-> 1, bits |-> <<>>]
    ELSE LET n == Len(q.bits)
         IN  Round([k \in 1..n |-> IF k = n THEN 1 ELSE 1 - q.bits[k]], FALSE)

\* the fraction X is below the fraction Y, from bit k on
RECURSIVE BitsLt(_, _, _)
BitsLt(X, Y, k) ==
    IF k > Len(Y) THEN FALSE
    ELSE IF k > Len(X) THEN \E j \in k..Len(Y) : Y[j] = 1
    ELSE IF X[k] # Y[k] THEN X[k] < Y[k]
    ELSE BitsLt(X, Y, k + 1)

\* x < y
FLt(x, y) == x.ip < y.ip \/ (x.ip = y.ip /\ BitsLt(x.bits, y.bits, 1))

\* the float64 a python number literal denotes: a whole number, or n/d < 1
FloatOf(x) == IF x[2] = 1 THEN [ip |-> x[1], bits |-> <<>>] ELSE FDiv(x[1], x[2])

\* ------------------------------------------------------------------------
\* State

VARIABLES
    call,               \* which engine was called: "alg_01" or "alg_02"
    pc,                 \* position of the call
    passed,             \* the arguments as the caller passed them
    stock_series,       \* alg_01: stock prices, newest first
    bond_series,        \* alg_01: bond prices, newest first
    series,             \* alg_02: prices, newest first
    heap,               \* list objects: reference -> list of rationals
    env,                \* local list names -> reference
    stock_val,
    bond_val,
    monthly_addn,
    margin,
    m_stock_val,
    max,
    min,
    i,                  \* loop index of the for statement
    current_decrease,
    init_port_val,
    port_change,
    fired,              \* history: number of ladder entries fired
    contributed         \* history: loop indices at which monthly_addn was added

vars == <<call, pc, passed, stock_series, bond_series, series, heap, env,
          stock_val, bond_val, monthly_addn, margin, m_stock_val, max, min,
          i, current_decrease, init_port_val, port_change, fired, contributed>>

\* python's 0-based indexing of a sequence
At(s, k) == s[k + 1]

Caller(n) == <<"caller", n>>

Callee(n) == <<"callee", n>>

\* the list a local name is bound to
ListOf(n) == heap[env[n]]

\* ------------------------------------------------------------------------
\* alg_01

\* all([0 < x and x < 100 for x in l])
PercentagesValid(l) ==
    \A k \in 1..Len(l) : RLt(R(0), l[k]) /\ RLt(l[k], R(PercentScale))

ValidArgs01 ==
    /\ PercentagesValid(ListOf("decr_perc"))
    /\ PercentagesValid(ListOf("sell_perc"))
    /\ Len(ListOf("decr_perc")) = Len(ListOf("sell_perc"))
    /\ Len(stock_series) = Len(bond_series)

\* [x / 100 for x in l], for the whole-number percentages of the thresholds
\* (compared with the drawdown) and for the sell percentages (multiplied into
\* the valuations)
ThresholdFractions(l) == [k \in 1..Len(l) |-> FDiv(l[k][1], PercentScale)]

ToFractions(l) == [k \in 1..Len(l) |-> RDiv(l[k], R(PercentScale))]

\* the object a name is bound to once the callee has built its own list
OwnList(n) == Callee(n)

\* a cadence one index late (i % 25 == 1), for comparison
ContributionDueShifted(k) == k % ContributionPeriod = 1

\* i % 25 == 0
ContributionDue(k) == k % ContributionPeriod = 0

\* current_decrease > decr_perc[0]
Exceeds(d, t) == FLt(t, d)

\* a walker whose minimum restarts at every new maximum, for comparison
ExtremaResettingMin(price, mx, mn) ==
    IF price > mx THEN <<price, price, FALSE>>
    ELSE IF price < mn THEN <<mx, price, TRUE>>
    ELSE <<mx, mn, FALSE>>

\* the two if statements on the price: <<max, min, whether min was lowered>>
Extrema(price, mx, mn) ==
    LET m1 == IF price > mx THEN price ELSE mx
    IN  IF price < mn THEN <<m1, price, TRUE>> ELSE <<m1, mn, FALSE>>

\* 1 - min/max
Drawdown01(mn, mx) == OneMinus(FDiv(mn, mx))

AssertFail01 ==
    /\ call = "alg_01" /\ pc = "entry"
    /\ ~ValidArgs01
    /\ pc' = "AssertionError"
    /\ UNCHANGED <<call, passed, stock_series, bond_series, series, heap, env,
                   stock_val, bond_val, monthly_addn, margin, m_stock_val,
                   max, min, i, current_decrease, init_port_val, port_change,
                   fired, contributed>>

Setup01 ==
    /\ call = "alg_01" /\ pc = "entry"
    /\ ValidArgs01
    /\ heap' = (OwnList("decr_perc") :> ThresholdFractions(ListOf("decr_perc")))
               @@ (OwnList("sell_perc") :> ToFractions(ListOf("sell_perc")))
               @@ heap
    /\ env' = [env EXCEPT !["decr_perc"] = OwnList("decr_perc"),
                          !["sell_perc"] = OwnList("sell_perc")]
    /\ max' = At(stock_series, Len(stock_series) - 1)
    /\ min' = At(stock_series, Len(stock_series) - 1)
    /\ current_decrease' = FZero
    /\ init_port_val' = RAdd(stock_val, bond_val)
    /\ i' = Len(stock_series) - 2
    /\ pc' = "for"
    /\ UNCHANGED <<call, passed, stock_series, bond_series, series, stock_val,
                   bond_val, monthly_addn, margin, m_stock_val, port_change,
                   fired, contributed>>

ForStep01 ==
    /\ call = "alg_01" /\ pc = "for" /\ i >= 0
    /\ LET price == At(stock_series, i)
           stock_change == RDiv(R(price), R(At(stock_series, i + 1)))
           bond_change == RDiv(R(At(bond_series, i)), R(At(bond_series, i + 1)))
           grown == RMul(bond_val, bond_change)
           e == Extrema(price, max, min)
       IN  /\ stock_val' = RMul(stock_val, stock_change)
           /\ bond_val' = IF ContributionDue(i)
                          THEN RAdd(grown, R(monthly_addn)) ELSE grown
           /\ contributed' = IF ContributionDue(i)
                             THEN contributed \cup {i} ELSE contributed
           /\ max' = e[1]
           /\ min' = e[2]
           /\ IF e[3]
              THEN /\ current_decrease' = Drawdown01(e[2], e[1])
                   /\ pc' = "while"
                   /\ i' = i
              ELSE /\ current_decrease' = current_decrease
                   /\ pc' = "for"
                   /\ i' = i - 1
    /\ UNCHANGED <<call, passed, stock_series, bond_series, series, heap, env,
                   monthly_addn, margin, m_stock_val, init_port_val,
                   port_change, fired>>

WhileIndexError01 ==
    /\ call = "alg_01" /\ pc = "while"
    /\ ListOf("decr_perc") = <<>>
    /\ pc' = "IndexError"
    /\ UNCHANGED <<call, passed, stock_series, bond_series, series, heap, env,
                   stock_val, bond_val, monthly_addn, margin, m_stock_val,
                   max, min, i, current_decrease, init_port_val, port_change,
                   fired, contributed>>

WhileFire01 ==
    /\ call = "alg_01" /\ pc = "while"
    /\ ListOf("decr_perc") # <<>>
    /\ Exceeds(current_decrease, ListOf("decr_perc")[1])
    /\ LET sell_value == RMul(bond_val, ListOf("sell_perc")[1])
       IN  /\ bond_val' = RSub(bond_val, sell_value)
           /\ stock_val' = RAdd(stock_val, sell_value)
    /\ heap' = [heap EXCEPT ![env["decr_perc"]] = Tail(@),
                            ![env["sell_perc"]] = Tail(@)]
    /\ fired' = fired + 1
    /\ UNCHANGED <<call, pc, passed, stock_series, bond_series, series, env,
                   monthly_addn, margin, m_stock_val, max, min, i,
                   current_decrease, init_port_val, port_change, contributed>>

WhileExit01 ==
    /\ call = "alg_01" /\ pc = "while"
    /\ ListOf("decr_perc") # <<>>
    /\ ~Exceeds(current_decrease, ListOf("decr_perc")[1])
    /\ pc' = "for"
    /\ i' = i - 1
    /\ UNCHANGED <<call, passed, stock_series, bond_series, series, heap, env,
                   stock_val, bond_val, monthly_addn, margin, m_stock_val,
                   max, min, current_decrease, init_port_val, port_change,
                   fired, contributed>>

Return01 ==
    /\ call = "alg_01" /\ pc = "for" /\ i < 0
    /\ port_change' = RSub(RDiv(RAdd(stock_val, bond_val), init_port_val), R(1))
    /\ pc' = "returned"
    /\ UNCHANGED <<call, passed, stock_series, bond_series, series, heap, env,
                   stock_val, bond_val, monthly_addn, margin, m_stock_val,
                   max, min, i, current_decrease, init_port_val, fired,
                   contributed>>

Next01 ==
    \/ AssertFail01
    \/ Setup01
    \/ ForStep01
    \/ WhileIndexError01
    \/ WhileFire01
    \/ WhileExit01
    \/ Return01

\* ------------------------------------------------------------------------
\* alg_02

ValidArgs02 ==
    /\ PercentagesValid(ListOf("decrease_percentages"))
    /\ PercentagesValid(ListOf("decrease_buys"))
    /\ PercentagesValid(ListOf("increase_percentages"))
    /\ PercentagesValid(ListOf("increase_sells"))

\* a binding without the copy (the caller's own list), for comparison
ListAlias(n) == Caller(n)

\* l.copy(): the object the name is bound to afterwards
ListCopy(n) == Callee(n)

\* (max - min) / max
Drawdown02(mn, mx) == FDiv(mx - mn, mx)

\* decrease_buys[0] * margin / 100.0
MarginDraw(buys, mg) == RDiv(RMul(buys[1], mg), R(PercentScale))

AssertFail02 ==
    /\ call = "alg_02" /\ pc = "entry"
    /\ ~ValidArgs02
    /\ pc' = "AssertionError"
    /\ UNCHANGED <<call, passed, stock_series, bond_series, series, heap, env,
                   stock_val, bond_val, monthly_addn, margin, m_stock_val,
                   max, min, i, current_decrease, init_port_val, port_change,
                   fired, contributed>>

Setup02 ==
    /\ call = "alg_02" /\ pc = "entry"
    /\ ValidArgs02
    /\ heap' = (ListCopy("decrease_percentages") :> ListOf("decrease_percentages"))
               @@ (ListCopy("increase_percentages") :> ListOf("increase_percentages"))
               @@ heap
    /\ env' = [env EXCEPT !["decrease_percentages"] = ListCopy("decrease_percentages"),
                          !["increase_percentages"] = ListCopy("increase_percentages")]
    /\ max' = At(series, Len(series) - 1)
    /\ min' = At(series, Len(series) - 1)
    /\ current_decrease' = FZero
    /\ m_stock_val' = R(0)
    /\ i' = Len(series) - 2
    /\ pc' = "for"
    /\ UNCHANGED <<call, passed, stock_series, bond_series, series, stock_val,
                   bond_val, monthly_addn, margin, init_port_val, port_change,
                   fired, contributed>>

ForStep02 ==
    /\ call = "alg_02" /\ pc = "for" /\ i >= 0
    /\ LET e == Extrema(At(series, i), max, min)
       IN  /\ max' = e[1]
           /\ min' = e[2]
           /\ IF e[3]
              THEN /\ current_decrease' = Drawdown02(e[2], e[1])
                   /\ pc' = "while"
                   /\ i' = i
              ELSE /\ current_decrease' = current_decrease
                   /\ pc' = "for"
                   /\ i' = i - 1
    /\ UNCHANGED <<call, passed, stock_series, bond_series, series, heap, env,
                   stock_val, bond_val, monthly_addn, margin, m_stock_val,
                   init_port_val, port_change, fired, contributed>>

\* decrease_percentages[0] on the emptied list, or decrease_buys[0] on an
\* empty one
WhileIndexError02 ==
    /\ call = "alg_02" /\ pc = "while"
    /\ \/ ListOf("decrease_percentages") = <<>>
       \/ /\ ListOf("decrease_percentages") # <<>>
          /\ Exceeds(current_decrease, FloatOf(ListOf("decrease_percentages")[1]))
          /\ ListOf("decrease_buys") = <<>>
    /\ pc' = "IndexError"
    /\ UNCHANGED <<call, passed, stock_series, bond_series, series, heap, env,
                   stock_val, bond_val, monthly_addn, margin, m_stock_val,
                   max, min, i, current_decrease, init_port_val, port_change,
                   fired, contributed>>

WhileFire02 ==
    /\ call = "alg_02" /\ pc = "while"
    /\ ListOf("decrease_percentages") # <<>>
    /\ Exceeds(current_decrease, FloatOf(ListOf("decrease_percentages")[1]))
    /\ ListOf("decrease_buys") # <<>>
    /\ m_stock_val' = RAdd(m_stock_val, MarginDraw(ListOf("decrease_buys"), margin))
    /\ margin' = RSub(margin, m_stock_val')
    /\ heap' = [heap EXCEPT ![env["decrease_percentages"]] = Tail(@)]
    /\ fired' = fired + 1
    /\ UNCHANGED <<call, pc, passed, stock_series, bond_series, series, env,
                   stock_val, bond_val, monthly_addn, max, min, i,
                   current_decrease, init_port_val, port_change, contributed>>

WhileExit02 ==
    /\ call = "alg_02" /\ pc = "while"
    /\ ListOf("decrease_percentages") # <<>>
    /\ ~Exceeds(current_decrease, FloatOf(ListOf("decrease_percentages")[1]))
    /\ pc' = "for"
    /\ i' = i - 1
    /\ UNCHANGED <<call, passed, stock_series, bond_series, series, heap, env,
                   stock_val, bond_val, monthly_addn, margin, m_stock_val,
                   max, min, current_decrease, init_port_val, port_change,
                   fired, contributed>>

\* the loop ends and the function falls off its end (returns None)
Return02 ==
    /\ call = "alg_02" /\ pc = "for" /\ i < 0
    /\ pc' = "returned"
    /\ UNCHANGED <<call, passed, stock_series, bond_series, series, heap, env,
                   stock_val, bond_val, monthly_addn, margin, m_stock_val,
                   max, min, i, current_decrease, init_port_val, port_change,
                   fired, contributed>>

Next02 ==
    \/ AssertFail02
    \/ Setup02
    \/ ForStep02
    \/ WhileIndexError02
    \/ WhileFire02
    \/ WhileExit02
    \/ Return02

\* ------------------------------------------------------------------------
\* The calls: arguments drawn from bounded sets

StockPrices == {90, 95, 100}

Valuations == {1000}

Additions == {0, 100}

Margins == {10000}

ListsUpTo(S, n) == UNION {[1..k -> S] : k \in 0..n}

SeriesUpTo(S, n) == UNION {[1..k -> S] : k \in 1..n}

\* bond series of a given length: flat at 50, or alternating 55 and 50
BondSeriesOf(n) ==
    {[k \in 1..n |-> 50], [k \in 1..n |-> IF k % 2 = 1 THEN 55 ELSE 50]}

\* percentages inside (0,100) that the callers pass
DecrInRange == {R(5), R(10)}

SellInRange == {R(10), R(50)}

\* alg_02 compares fractions: 1/50 and 1/20 are the percentages 0.02 and 0.05
DecreaseInRange == {<<1, 50>>, <<1, 20>>, R(5)}

BuysInRange == {R(10), R(50)}

\* the same with values outside (0,100)
DecrPercs == DecrInRange \cup {R(100), R(150)}

SellPercs == SellInRange \cup {R(0)}

DecreasePercentages == DecreaseInRange \cup {R(150)}

DecreaseBuys == BuysInRange \cup {R(0)}

IncreaseLists == {<<<<>>, <<>>>>, <<<<R(5)>>, <<R(10)>>>>,
                  <<<<R(100)>>, <<R(10)>>>>, <<<<R(5)>>, <<R(0)>>>>}

\* series for the calls whose configuration lists are drawn freely
ProbeStock == {<<90, 100>>, <<100, 90, 100, 90, 100>>}

ProbeBond == {<<50, 50>>, <<50, 50, 50, 50>>}

ProbeSeries == {<<90, 100>>}

Unset == 0

Call01(ss, bs, sv, bv, dp, sp, m) ==
    /\ call = "alg_01"
    /\ pc = "entry"
    /\ passed = [stock_val |-> R(sv), bond_val |-> R(bv), margin |-> R(0),
                 lists |-> (Caller("decr_perc") :> dp) @@ (Caller("sell_perc") :> sp)]
    /\ stock_series = ss
    /\ bond_series = bs
    /\ series = <<>>
    /\ heap = (Caller("decr_perc") :> dp) @@ (Caller("sell_perc") :> sp)
    /\ env = ("decr_perc" :> Caller("decr_perc")) @@ ("sell_perc" :> Caller("sell_perc"))
    /\ stock_val = R(sv)
    /\ bond_val = R(bv)
    /\ monthly_addn = m
    /\ margin = R(0)
    /\ m_stock_val = R(0)
    /\ max = Unset /\ min = Unset /\ i = Unset
    /\ current_decrease = FZero
    /\ init_port_val = R(0)
    /\ port_change = R(0)
    /\ fired = 0
    /\ contributed = {}

Call02(s, mg, dp, db, ip, is) ==
    /\ call = "alg_02"
    /\ pc = "entry"
    /\ passed = [stock_val |-> R(0), bond_val |-> R(0), margin |-> R(mg),
                 lists |-> (Caller("decrease_percentages") :> dp)
                           @@ (Caller("decrease_buys") :> db)
                           @@ (Caller("increase_percentages") :> ip)
                           @@ (Caller("increase_sells") :> is)]
    /\ stock_series = <<>>
    /\ bond_series = <<>>
    /\ series = s
    /\ heap = passed.lists
    /\ env = ("decrease_percentages" :> Caller("decrease_percentages"))
             @@ ("decrease_buys" :> Caller("decrease_buys"))
             @@ ("increase_percentages" :> Caller("increase_percentages"))
             @@ ("increase_sells" :> Caller("increase_sells"))
    /\ stock_val = R(0)
    /\ bond_val = R(0)
    /\ monthly_addn = 0
    /\ margin = R(mg)
    /\ m_stock_val = R(0)
    /\ max = Unset /\ min = Unset /\ i = Unset
    /\ current_decrease = FZero
    /\ init_port_val = R(0)
    /\ port_change = R(0)
    /\ fired = 0
    /\ contributed = {}

\* alg_01 called with series of one length and paired lists in range
InitPaired01 ==
    \E ss \in SeriesUpTo(StockPrices, MaxLen), n \in 0..MaxLadder,
       sv \in Valuations, bv \in Valuations, m \in Additions :
        \E bs \in BondSeriesOf(Len(ss)),
           dp \in [1..n -> DecrInRange], sp \in [1..n -> SellInRange] :
            Call01(ss, bs, sv, bv, dp, sp, m)

\* alg_01 called with any lists, of any lengths, and any series lengths
InitFree01 ==
    \E ss \in ProbeStock, bs \in ProbeBond, sv \in Valuations, bv \in Valuations,
       dp \in ListsUpTo(DecrPercs, MaxLadder), sp \in ListsUpTo(SellPercs, MaxLadder) :
        Call01(ss, bs, sv, bv, dp, sp, 0)

InitPaired02 ==
    \E s \in SeriesUpTo(StockPrices, MaxLen), n \in 0..MaxLadder, mg \in Margins :
        \E dp \in [1..n -> DecreaseInRange], db \in [1..n -> BuysInRange] :
            Call02(s, mg, dp, db, <<R(5)>>, <<R(10)>>)

InitFree02 ==
    \E s \in ProbeSeries, mg \in Margins,
       dp \in ListsUpTo(DecreasePercentages, MaxLadder),
       db \in ListsUpTo(DecreaseBuys, MaxLadder),
       inc \in IncreaseLists :
        Call02(s, mg, dp, db, inc[1], inc[2])

Init == InitPaired01 \/ InitFree01 \/ InitPaired02 \/ InitFree02

Next == Next01 \/ Next02

Spec == Init /\ [][Next]_vars

\* ------------------------------------------------------------------------
\* alg_01 on long series: a two-price pattern repeated up to the length

LongLens == {26, 50, 51}

Patterns == [1..2 -> StockPrices]

Periodic(pat, n) == [k \in 1..n |-> pat[((k - 1) % Len(pat)) + 1]]

LongLadders == {<<<<>>, <<>>>>, <<<<R(5)>>, <<R(10)>>>>, <<<<R(10)>>, <<R(50)>>>>,
                <<<<R(5), R(10)>>, <<R(10), R(50)>>>>, <<<<R(150)>>, <<R(10)>>>>}

InitLong ==
    \E n \in LongLens, pat \in Patterns, sv \in Valuations, bv \in Valuations,
       ld \in LongLadders, m \in Additions :
        \E bs \in BondSeriesOf(n) :
            Call01(Periodic(pat, n), bs, sv, bv, ld[1], ld[2], m)

SpecLong == InitLong /\ [][Next01]_vars

\* ------------------------------------------------------------------------
\* Vocabulary of the properties

\* the price series the called engine walks
Walked == IF call = "alg_01" THEN stock_series ELSE series

Started == pc \in {"for", "while", "IndexError", "returned"}

\* the oldest-first walk has visited the indices VisitedFrom .. Len - 1
VisitedFrom == IF pc \in {"while", "IndexError"} THEN i ELSE i + 1

VisitedPrices == {At(Walked, k) : k \in VisitedFrom..(Len(Walked) - 1)}

VisitedSteps == VisitedFrom..(Len(Walked) - 2)

\* the ladder as the caller supplied it
Thresholds ==
    IF call = "alg_01" THEN passed.lists[Caller("decr_perc")]
    ELSE passed.lists[Caller("decrease_percentages")]

Fractions ==
    IF call = "alg_01" THEN passed.lists[Caller("sell_perc")]
    ELSE passed.lists[Caller("decrease_buys")]

InRange(l) == \A k \in 1..Len(l) : RLt(R(0), l[k]) /\ RLt(l[k], R(100))

\* a call the specification says must be rejected
Rejectable ==
    \/ \E r \in DOMAIN passed.lists : ~InRange(passed.lists[r])
    \/ Len(Thresholds) # Len(Fractions)
    \/ /\ call = "alg_02"
       /\ Len(passed.lists[Caller("increase_percentages")])
            # Len(passed.lists[Caller("increase_sells")])
    \/ call = "alg_01" /\ Len(stock_series) # Len(bond_series)

\* nothing of the simulation has run
Untouched ==
    /\ heap = passed.lists
    /\ \A n \in DOMAIN env : env[n] = Caller(n)
    /\ stock_val = passed.stock_val /\ bond_val = passed.bond_val
    /\ margin = passed.margin /\ m_stock_val = R(0)
    /\ max = Unset /\ min = Unset /\ i = Unset
    /\ current_decrease = FZero
    /\ fired = 0 /\ contributed = {}

\* the float64 f is 1 - mn/mx to within two units of the 53rd bit after the
\* binary point
NearDrawdown(f, mn, mx) ==
    LET F == [k \in 1..53 |-> IF k <= Len(f.bits) THEN f.bits[k] ELSE 0]
        T == Expansion(mx - mn, mx, 53)
    IN  f.ip = 0 /\ (F = T \/ Inc(F)[2] = T \/ Inc(T)[2] = F)

\* the return the claim C1 states for an untouched portfolio: both valuations
\* follow the raw price ratios and the contributions are added
BuyAndHold ==
    LET last == Len(stock_series) - 1
        st == RMul(passed.stock_val, RDiv(R(At(stock_series, 0)), R(At(stock_series, last))))
        bd == RMul(passed.bond_val, RDiv(R(At(bond_series, 0)), R(At(bond_series, last))))
        cn == R(monthly_addn * Cardinality({k \in 0..(last - 1) : k % 25 = 0}))
    IN  RSub(RDiv(RAdd(RAdd(st, bd), cn), RAdd(passed.stock_val, passed.bond_val)), R(1))

ScenarioA ==
    /\ call = "alg_01"
    /\ stock_series = <<100, 90, 100>> /\ bond_series = <<50, 50, 50>>
    /\ passed.stock_val = R(1000) /\ passed.bond_val = R(1000)
    /\ Thresholds = <<R(5)>> /\ Fractions = <<R(10)>>
    /\ monthly_addn = 0

\* ------------------------------------------------------------------------
\* The claims

\* C1: with empty threshold and fraction lists alg_01 completes on every valid
\* series pair, also one whose stock price falls below its first traversed
\* price, and returns the buy-and-hold return.
C1_EmptyLadderBuyAndHold ==
    (call = "alg_01" /\ Thresholds = <<>> /\ Fractions = <<>>
        /\ Len(stock_series) = Len(bond_series))
    => /\ pc # "IndexError"
       /\ fired = 0
       /\ pc = "returned" => port_change = BuyAndHold

\* C2: in either engine no more entries fire than were supplied, and once every
\* supplied entry has fired the later evaluations of the ladder (also the
\* re-evaluation inside the same new-minimum event) raise no error.
C2_DepletedLadderIsInert ==
    /\ fired <= Len(Thresholds)
    /\ (Len(Thresholds) > 0 /\ fired = Len(Thresholds)) => pc # "IndexError"

\* C3: Scenario A runs to completion, fires exactly once with bond = 900 and
\* stock = 1000 right after the firing, and returns 1/180.
C3_ScenarioA ==
    ScenarioA
    => /\ pc # "IndexError"
       /\ fired <= 1
       /\ (pc = "while" /\ fired = 1) => (bond_val = R(900) /\ stock_val = R(1000))
       /\ pc = "returned" => (fired = 1 /\ port_change = <<1, 180>>)

\* C4: a call with a value outside (0,100), with paired lists of unequal
\* length, or (alg_01) with series of unequal length ends in an error before
\* any valuation, extremum or ladder state is updated.
C4_ValidationPrecedesWork ==
    Rejectable => (pc \in {"entry", "AssertionError"} /\ Untouched)

\* C5: every list the caller passed keeps its length and contents throughout
\* and after the call, whether the call returns or fails.
C5_CallerListsIntact ==
    \A r \in DOMAIN passed.lists : heap[r] = passed.lists[r]

\* C5 witness: a call of alg_01 that fired (popped) entries and returned.
C5_Witness ==
    /\ pc = "returned" /\ call = "alg_01" /\ fired > 0
    /\ C5_CallerListsIntact

\* C6: at an evaluation of the alg_01 ladder the front entry fires only if the
\* drawdown 1 - min/max strictly exceeds the percentage the caller gave for
\* it, and on a drawdown equal to it nothing fires: the ladder and both
\* valuations stay as they are and the walk goes on.
C6_StrictCrossing ==
    [][(call = "alg_01" /\ pc = "while" /\ fired < Len(Thresholds))
       => LET p == Thresholds[fired + 1]
          IN  /\ fired' # fired => (max - min) * 100 * p[2] > p[1] * max
              /\ ((max - min) * 100 * p[2] = p[1] * max)
                 => /\ pc' = "for" /\ fired' = fired /\ heap' = heap
                    /\ stock_val' = stock_val /\ bond_val' = bond_val]_vars

\* C7: alg_01 adds monthly_addn at exactly the walked indices i with
\* i mod 25 = 0; over a 50-element series these are the indices 25 and 0.
C7_ContributionCadence ==
    (call = "alg_01" /\ Started)
    => /\ contributed = {k \in VisitedSteps : k % 25 = 0}
       /\ (fired = 0 /\ \A k \in 1..Len(bond_series) : bond_series[k] = 50)
          => bond_val = RAdd(passed.bond_val, R(monthly_addn * Cardinality(contributed)))
       /\ (pc = "returned" /\ Len(stock_series) = 50) => contributed = {0, 25}

\* C7 witness: a completed walk of a 50-element series with two contributions
\* of 100 in the bond valuation.
C7_Witness ==
    /\ call = "alg_01" /\ pc = "returned" /\ Len(stock_series) = 50
    /\ monthly_addn = 100 /\ fired = 0
    /\ contributed = {0, 25}
    /\ bond_val = R(1200)

\* C8: in alg_02 a threshold given as the percentage p fires at a new-minimum
\* event whenever (max - min)/max > p/100.
C8_MarginTriggerUnits ==
    [][(call = "alg_02" /\ pc = "while"
        /\ ListOf("decrease_percentages") # <<>> /\ ListOf("decrease_buys") # <<>>
        /\ LET p == ListOf("decrease_percentages")[1]
           IN  (max - min) * 100 * p[2] > p[1] * max)
       => fired' = fired + 1]_vars

\* C9: the k-th firing of the alg_02 ladder draws decrease_buys[k] percent of
\* the available margin into the margin-stock position and then reduces the
\* available margin by the cumulative margin-stock value.
C9_MarginPairing ==
    [][(call = "alg_02" /\ fired' = fired + 1 /\ fired < Len(Fractions))
       => /\ m_stock_val' = RAdd(m_stock_val,
                                 RDiv(RMul(Fractions[fired + 1], margin), R(100)))
          /\ margin' = RSub(margin, m_stock_val')]_vars

====
